---- MODULE Spec2Model ----
(***************************************************************************)
(* asyncio_extras/threads.py: the threadpool() scoped block (the class     *)
(* _ThreadSwitcher used as an asynchronous context manager), the wrapper   *)
(* produced by _ThreadSwitcher.__call__, and the event loop, Task and      *)
(* executor behaviour that the code relies on.                             *)
(*                                                                         *)
(* A coroutine's code is  pre ; (async with sw_k: body_k)* ; post.         *)
(* `async with sw: body` runs  await sw.__aenter__() ; body ;              *)
(* await sw.__aexit__(exc) , and both awaits run the generator             *)
(* _ThreadSwitcher.__await__ because __aenter__ and __aexit__ return self. *)
(***************************************************************************)
EXTENDS Integers, Sequences, FiniteSets, TLC

\* ------------------------------------------------------------------ bounds
MaxBlocks == 2
NumWorkers == 2
MaxCalls == 2
MaxTicks == 2

\* ------------------------------------------------------------ vocabulary
LoopThread == "loop"
WorkerNames == <<"w1", "w2", "w3", "w4">>
Workers == {WorkerNames[i] : i \in 1..NumWorkers}
Coros == {"c1", "c2"}
BodyKinds == {"plain", "raise", "await"}
ExtThread == "ext"
Funcs == {"div"}
CoroFuncs == {"cofn"}
AllFuncs == Funcs \cup CoroFuncs
PosArgs == {6}
KwArgs == {0, 2}
Switchers == Coros \X (1..MaxBlocks)
MaxHandoffs == 2 * MaxBlocks

VARIABLES
  prog,      \* per coroutine: its blocks, each [sw, kind] (the user's code)
  live,      \* the coroutine objects of this code that exist
  cpc,       \* per coroutine: where its frame stands
  phase,     \* per coroutine: "enter" or "exit", the await of the block it is in
  blk,       \* per coroutine: index of the block it is in
  pend,      \* per coroutine: the exception in flight in its frame, or "none"
  inside,    \* per coroutine: the threads executing its frame
  curh,      \* per coroutine: the handoff (local `future`, `event`) of its running __await__
  exited,    \* per _ThreadSwitcher object: self.exited
  hs,        \* the handoffs made so far: event, future, worker task exec_when_ready
  ready,     \* the event loop's queue of scheduled callbacks (call_soon order)
  lcur,      \* what the event loop thread is running: "idle" or a coroutine
  taskRes,   \* per coroutine: outcome of the Task that drives it
  preTh, bodyTh, afterTh,  \* which thread ran the code before, inside and after a block
  calls,     \* the calls made through a wrapper of _ThreadSwitcher.__call__
             \* or through call_in_executor
  jobs,      \* the callbacks those calls submitted to the executor
  wraps,     \* per callable: what _ThreadSwitcher.__call__(func) gave for it
  asserts,   \* whether the interpreter runs assert statements (false under -O)
  shut       \* whether the executor has been shut down

coVars == <<cpc, phase, blk, pend, curh>>
histVars == <<preTh, bodyTh, afterTh>>
envVars == <<prog, live, wraps, asserts, shut>>
callVars == <<calls, jobs>>
vars == <<prog, live, cpc, phase, blk, pend, inside, curh, exited, hs, ready,
          lcur, taskRes, preTh, bodyTh, afterTh, calls, jobs, wraps, asserts,
          shut>>

Handoffs == DOMAIN hs
NoThreads == [k \in 1..MaxBlocks |-> "none"]

\* One scheduled callback of the loop.
Cb(type, c, h, exc) == [type |-> type, c |-> c, h |-> h, exc |-> exc]

\* The programs a coroutine function may have: 1..MaxBlocks scoped blocks, block
\* k using a _ThreadSwitcher object made for it or one made for an earlier block.
Programs ==
  UNION { { p \in [1..n -> [sw : 1..MaxBlocks, kind : BodyKinds]] :
              \A k \in 1..n : p[k].sw <= k } : n \in 1..MaxBlocks }

\* self of the __await__ / __aexit__ the coroutine is running
Sw(c) == <<c, prog[c][blk[c]].sw>>

\* ---------------------------------------------------------------- initial
\* _ThreadSwitcher.__init__: exited = False.
InitExited == [s \in Switchers |-> FALSE]

InitCommon ==
  /\ prog \in [Coros -> Programs]
  /\ \A c \in Coros : c \notin live => prog[c] = prog["c1"]
  /\ cpc = [c \in Coros |-> IF c \in live THEN "start" ELSE "absent"]
  /\ phase = [c \in Coros |-> "enter"]
  /\ blk = [c \in Coros |-> 1]
  /\ pend = [c \in Coros |-> "none"]
  /\ inside = [c \in Coros |-> {}]
  /\ curh = [c \in Coros |-> 0]
  /\ exited = InitExited
  /\ hs = <<>>
  /\ lcur = "idle"
  /\ taskRes = [c \in Coros |-> "none"]
  /\ preTh = [c \in Coros |-> "none"]
  /\ bodyTh = [c \in Coros |-> NoThreads]
  /\ afterTh = [c \in Coros |-> NoThreads]
  /\ calls = <<>>
  /\ jobs = <<>>

\* The plain callables have been wrapped, assert statements run and the
\* executor accepts work.
InitEnv ==
  /\ wraps = [f \in AllFuncs |-> IF f \in Funcs THEN "wrapper" ELSE "none"]
  /\ asserts = TRUE
  /\ shut = FALSE

\* One task runs the coroutine function: its first step is scheduled.
Init ==
  /\ live = {"c1"}
  /\ InitCommon
  /\ InitEnv
  /\ ready = <<Cb("step", "c1", 0, "none")>>


\* -------------------------------------------------- threads and the loop
\* get_event_loop() succeeds on the event loop thread and raises RuntimeError
\* on a thread with no event loop (a worker thread).
HasLoop(t) == t = LoopThread

\* A worker thread is idle when it runs no executor job.
WorkerIdle(w) ==
  /\ \A h \in Handoffs : hs[h].wth = w => hs[h].wpc \in {"queued", "done"}
  /\ \A j \in DOMAIN jobs : jobs[j].th = w => jobs[j].st = "done"

NewHandoffSignaled(c, s, target) ==
  [owner |-> c, blk |-> blk[c], sw |-> s, target |-> target, ev |-> TRUE,
   blocking |-> FALSE,
   fst |-> "pending", fexc |-> "none", waiter |-> "none", parked |-> FALSE,
   wpc |-> "queued", wth |-> "none", wexc |-> "none"]

\* event = Event(); future = loop.run_in_executor(self.executor, exec_when_ready)
NewHandoff(c, s, target) ==
  [owner |-> c, blk |-> blk[c], sw |-> s, target |-> target, ev |-> FALSE,
   blocking |-> FALSE,
   fst |-> "pending", fexc |-> "none", waiter |-> "none", parked |-> FALSE,
   wpc |-> "queued", wth |-> "none", wexc |-> "none"]

\* gc.get_referrers(previous_frame.f_code) filtered by inspect.iscoroutine: the
\* coroutine objects made from the code of the frame that awaits. All
\* coroutines of the model run the same code.
Referrers(c) == live

\* The handoff whose worker task is inside coro.send on thread t.
DriverH(t) == CHOOSE h \in Handoffs : hs[h].wth = t /\ hs[h].wpc = "insend"

\* -------------------------------------- what the driver of a coroutine does
\* Task.__step after coro.send / coro.throw came back with y.
TaskStepResult(c, y) ==
  CASE y.k = "fut" ->
         /\ taskRes' = taskRes
         /\ IF hs[y.h].blocking
            THEN /\ hs' = [hs EXCEPT ![y.h].blocking = FALSE,
                                     ![y.h].waiter = c,
                                     ![y.h].parked = TRUE]
                 /\ ready' = IF hs[y.h].fst = "pending" THEN ready
                             ELSE Append(ready, Cb("step", c, y.h, hs[y.h].fexc))
            ELSE /\ hs' = hs
                 /\ ready' = Append(ready, Cb("step", c, 0, "NotAwaited"))
    [] y.k = "none" ->
         /\ taskRes' = taskRes
         /\ hs' = hs
         /\ ready' = Append(ready, Cb("step", c, 0, "none"))
    [] y.k = "return" ->
         /\ taskRes' = [taskRes EXCEPT ![c] = "ok"]
         /\ UNCHANGED <<hs, ready>>
    [] y.k = "raise" ->
         /\ taskRes' = [taskRes EXCEPT ![c] = y.e]
         /\ UNCHANGED <<hs, ready>>

\* exec_when_ready after coro.send(None) came back with y: a yield returns to
\* line 28; an exception of the coroutine (StopIteration when it returned) ends
\* the worker task, and the executor reports it to the loop.
WorkerSendResult(t, y) ==
  LET h == DriverH(t) IN
  /\ taskRes' = taskRes
  /\ IF y.k \in {"fut", "none"}
     THEN /\ hs' = [hs EXCEPT ![h].wpc = "check"]
          /\ ready' = ready
     ELSE /\ hs' = [hs EXCEPT ![h].wpc = "done",
                              ![h].wexc = IF y.k = "return" THEN "StopIteration" ELSE y.e]
          /\ ready' = Append(ready, Cb("resolve", "c1", h, "none"))

\* The coroutine c, run by thread t, gives control back to whoever resumed it.
Deliver(c, t, y) ==
  /\ inside' = [inside EXCEPT ![c] = @ \ {t}]
  /\ IF t = LoopThread
     THEN /\ lcur' = "idle"
          /\ TaskStepResult(c, y)
     ELSE /\ lcur' = lcur
          /\ WorkerSendResult(t, y)

\* coro.send(None) (exc = "none") or coro.throw(exc) by thread t.
Resume(c, t, exc) ==
  /\ inside' = [inside EXCEPT ![c] = @ \cup {t}]
  /\ IF inside[c] # {}
     THEN UNCHANGED <<cpc, pend>>
     ELSE CASE cpc[c] = "start" ->
                 /\ cpc' = [cpc EXCEPT ![c] = "pre"]
                 /\ pend' = pend
            [] cpc[c] \in {"at33", "at44"} ->
                 IF exc = "none"
                 THEN /\ cpc' = [cpc EXCEPT ![c] = IF phase[c] = "enter" THEN "body" ELSE "after"]
                      /\ pend' = pend
                 ELSE /\ cpc' = [cpc EXCEPT ![c] = "raise"]
                      /\ pend' = [pend EXCEPT ![c] = exc]
            [] cpc[c] = "bodywait" ->
                 IF exc = "none"
                 THEN /\ cpc' = [cpc EXCEPT ![c] = "body2"]
                      /\ pend' = pend
                 ELSE /\ cpc' = [cpc EXCEPT ![c] = "exit"]
                      /\ pend' = [pend EXCEPT ![c] = exc]
            [] OTHER -> UNCHANGED <<cpc, pend>>


\* ------------------------------------------------ _ThreadSwitcher methods
AExitForgets(s) == exited' = exited

\* __aexit__ line 48: self.exited = True
AExit(s) == exited' = [exited EXCEPT ![s] = TRUE]

ReleaseLatchNow(h) ==
  /\ ready' = ready
  /\ hs' = [hs EXCEPT ![h].ev = TRUE]

ReleaseLatchTwice(h) ==
  /\ ready' = ready \o <<Cb("set", "c1", h, "none"), Cb("set", "c1", h, "none")>>
  /\ hs' = hs

\* line 43: loop.call_soon(event.set)
ReleaseLatch(h) ==
  /\ ready' = Append(ready, Cb("set", "c1", h, "none"))
  /\ hs' = hs

\* line 42: next(future.__await__()) sets the future's _asyncio_future_blocking
MarkAwaited(h) == hs' = [hs EXCEPT ![h].blocking = TRUE]

MustRaiseNever(s) == FALSE
MustRaiseInverted(s) == exited[s]

\* line 28: if not self.exited
MustRaise(s) == ~exited[s]

AwaitReturnSelf == "self"

\* What `await self` evaluates to: __await__ ends without a return statement.
AwaitReturn == "None"

SuppressedAlways(v) == TRUE

\* `async with` re-raises the body's exception unless the awaited __aexit__
\* gave a true value.
Suppressed(v) == v # "None"

\* ------------------------------------- _ThreadSwitcher.__call__.wrapper
Outcome(k, v, e) == [k |-> k, v |-> v, e |-> e]
NoOutcome == Outcome("none", 0, "none")

\* line 63: inspect.iscoroutinefunction(func)
IsCoroutineFunction(f) == f \in CoroFuncs

\* lines 63-65: the assert statement, when the interpreter runs it, raises
\* AssertionError for a coroutine function; otherwise the wrapper is returned.
WrapResult(f) ==
  IF asserts /\ IsCoroutineFunction(f) THEN "AssertionError" ELSE "wrapper"

\* The wrapped callable: def div(x, y=1): return x // y. Calling it gives a
\* value or an error. Calling a coroutine function gives a coroutine object
\* and runs none of its code.
Func(f, pos, kw) ==
  IF IsCoroutineFunction(f) THEN Outcome("coro", 0, "none")
  ELSE IF kw = 0 THEN Outcome("err", 0, "ZeroDivisionError")
  ELSE Outcome("ok", pos \div kw, "none")

PartialDropsKw(f, pos, kw) == [f |-> f, pos |-> pos, kw |-> 1]
PartialDropsPos(f, pos, kw) == [f |-> f, pos |-> 0, kw |-> kw]

\* line 60: callback = partial(func, *args, **kwargs)
Partial(f, pos, kw) == [f |-> f, pos |-> pos, kw |-> kw]

RunCallbackSwallows(cb) == Outcome("ok", 0, "none")

\* callback(): the bound callable called with its bound arguments.
RunCallback(cb) == Func(cb.f, cb.pos, cb.kw)

RouteAlwaysDirect(t) == "direct"
RouteAlwaysSubmit(t) == "submit"

\* lines 54-59: try get_event_loop(); except RuntimeError: call in place;
\* else: submit.
Route(t) == IF HasLoop(t) THEN "submit" ELSE "direct"

\* A call through the wrapper or through call_in_executor, as it starts.
CallRec(t, f, pos, kw, via, route) ==
  [th |-> t, f |-> f, pos |-> pos, kw |-> kw, via |-> via, route |-> route,
   shutAt |-> shut, exc |-> "none",
   ran |-> "none", rout |-> NoOutcome, ret |-> "unreturned",
   fst |-> "nofuture", fout |-> NoOutcome, retFst |-> "nofuture",
   retJob |-> "nojob"]

SubmitRaisesNever == FALSE

\* executor.submit raises RuntimeError once the executor has been shut down.
SubmitRaises == shut

\* loop.run_in_executor(executor, callback) of lines 61 and 130: the
\* executor's submit raises out of it, or the callback is queued and a
\* pending future is made.
RunInExecutor(rec, cb) ==
  IF SubmitRaises
  THEN /\ calls' = Append(calls, [rec EXCEPT !.exc = "SubmitError"])
       /\ jobs' = jobs
  ELSE /\ calls' = Append(calls, [rec EXCEPT !.fst = "pending"])
       /\ jobs' = Append(jobs, [call |-> Len(calls) + 1, cb |-> cb,
                                st |-> "queued", th |-> "none", out |-> NoOutcome])

\* wrapper(*args, **kwargs) entered on thread t. On line 58 the callable runs
\* and the wrapper returns its value or raises its error; on lines 60-61 the
\* callback is submitted and line 61 has yet to return.
WrapperCall(t, f, pos, kw) ==
  LET base == CallRec(t, f, pos, kw, "wrapper", Route(t)) IN
  /\ Len(calls) < MaxCalls
  /\ wraps[f] = "wrapper"
  /\ IF Route(t) = "direct"
     THEN /\ calls' = Append(calls, [base EXCEPT
                                       !.ran = t,
                                       !.rout = Func(f, pos, kw),
                                       !.ret = IF Func(f, pos, kw).k = "err"
                                               THEN "raised" ELSE "value"])
          /\ jobs' = jobs
     ELSE RunInExecutor(base, Partial(f, pos, kw))

\* call_in_executor(func, *args, executor=..., **kwargs) called on thread t:
\* line 129 binds the arguments, line 130 gets the loop of the thread, which
\* raises RuntimeError on a thread that has none, and submits.
CallInExecutor(t, f, pos, kw) ==
  LET base == CallRec(t, f, pos, kw, "helper", "submit") IN
  /\ Len(calls) < MaxCalls
  /\ IF HasLoop(t)
     THEN RunInExecutor(base, Partial(f, pos, kw))
     ELSE /\ calls' = Append(calls, [base EXCEPT !.exc = "NoLoop", !.ret = "raised"])
          /\ jobs' = jobs

\* The call of thread t that has not returned yet.
OpenCall(t) == CHOOSE k \in DOMAIN calls : calls[k].th = t /\ calls[k].ret = "unreturned"
JobOf(k) == {j \in DOMAIN jobs : jobs[j].call = k}
JobState(k) == IF JobOf(k) = {} THEN "nojob" ELSE jobs[CHOOSE j \in JobOf(k) : TRUE].st

\* Line 61 (line 130) returns the future of run_in_executor, or the error of
\* run_in_executor leaves the call.
WrapperReturn(k) ==
  calls' = [calls EXCEPT ![k].ret = IF calls[k].exc = "none" THEN "future"
                                    ELSE "raised",
                         ![k].retFst = calls[k].fst,
                         ![k].retJob = JobState(k)]

\* ------------------------------------------------------ coroutine steps
\* The code before the first scoped block.
CoPre(c, t) ==
  /\ cpc[c] = "pre" /\ t \in inside[c]
  /\ preTh' = [preTh EXCEPT ![c] = t]
  /\ cpc' = [cpc EXCEPT ![c] = "await"]
  /\ UNCHANGED <<phase, blk, pend, curh, inside, exited, hs, ready, lcur, taskRes,
                 bodyTh, afterTh, envVars, callVars>>

CoAwaitExitedReturns(c, t) ==
  /\ cpc[c] = "await" /\ t \in inside[c]
  /\ exited[Sw(c)]
  /\ cpc' = [cpc EXCEPT ![c] = IF phase[c] = "enter" THEN "body" ELSE "after"]
  /\ UNCHANGED <<phase, blk, pend, curh, inside, exited, hs, ready, lcur, taskRes,
                 histVars, envVars, callVars>>

\* __await__ lines 31-33: self.exited is true, a bare yield.
CoAwaitExited(c, t) ==
  /\ cpc[c] = "await" /\ t \in inside[c]
  /\ exited[Sw(c)]
  /\ cpc' = [cpc EXCEPT ![c] = "at33"]
  /\ Deliver(c, t, [k |-> "none"])
  /\ UNCHANGED <<phase, blk, pend, curh, exited, histVars, envVars, callVars>>

\* __await__ lines 34-41: find the coroutine, make the event, get the loop,
\* submit exec_when_ready.
CoAwaitSubmit(c, t) ==
  /\ cpc[c] = "await" /\ t \in inside[c]
  /\ ~exited[Sw(c)]
  /\ IF HasLoop(t)
     THEN /\ Len(hs) < MaxHandoffs
          /\ \E target \in Referrers(c) :
               hs' = Append(hs, NewHandoff(c, Sw(c), target))
          /\ curh' = [curh EXCEPT ![c] = Len(hs) + 1]
          /\ cpc' = [cpc EXCEPT ![c] = "mark"]
          /\ pend' = pend
     ELSE /\ cpc' = [cpc EXCEPT ![c] = "raise"]
          /\ pend' = [pend EXCEPT ![c] = "NoLoop"]
          /\ UNCHANGED <<hs, curh>>
  /\ UNCHANGED <<phase, blk, inside, exited, ready, lcur, taskRes, histVars,
                 envVars, callVars>>

\* __await__ line 42.
CoMark(c, t) ==
  /\ cpc[c] = "mark" /\ t \in inside[c]
  /\ MarkAwaited(curh[c])
  /\ cpc' = [cpc EXCEPT ![c] = "callsoon"]
  /\ UNCHANGED <<phase, blk, pend, curh, inside, exited, ready, lcur, taskRes,
                 histVars, envVars, callVars>>

\* __await__ line 43.
CoCallSoon(c, t) ==
  /\ cpc[c] = "callsoon" /\ t \in inside[c]
  /\ ReleaseLatch(curh[c])
  /\ cpc' = [cpc EXCEPT ![c] = "yieldfut"]
  /\ UNCHANGED <<phase, blk, pend, curh, inside, exited, lcur, taskRes,
                 histVars, envVars, callVars>>

\* __await__ line 44: yield future.
CoYieldFuture(c, t) ==
  /\ cpc[c] = "yieldfut" /\ t \in inside[c]
  /\ cpc' = [cpc EXCEPT ![c] = "at44"]
  /\ Deliver(c, t, [k |-> "fut", h |-> curh[c]])
  /\ UNCHANGED <<phase, blk, pend, curh, exited, histVars, envVars, callVars>>

\* The body of the scoped block: it ends, or it raises.
CoBodyRun(c, t) ==
  /\ cpc[c] = "body" /\ t \in inside[c]
  /\ prog[c][blk[c]].kind \in {"plain", "raise"}
  /\ bodyTh' = [bodyTh EXCEPT ![c][blk[c]] = t]
  /\ pend' = [pend EXCEPT ![c] = IF prog[c][blk[c]].kind = "raise" THEN "BodyError" ELSE @]
  /\ cpc' = [cpc EXCEPT ![c] = "exit"]
  /\ UNCHANGED <<phase, blk, curh, inside, exited, hs, ready, lcur, taskRes,
                 preTh, afterTh, envVars, callVars>>

\* The body of the scoped block awaits something that yields.
CoBodyAwait(c, t) ==
  /\ cpc[c] = "body" /\ t \in inside[c]
  /\ prog[c][blk[c]].kind = "await"
  /\ bodyTh' = [bodyTh EXCEPT ![c][blk[c]] = t]
  /\ cpc' = [cpc EXCEPT ![c] = "bodywait"]
  /\ Deliver(c, t, [k |-> "none"])
  /\ UNCHANGED <<phase, blk, pend, curh, exited, preTh, afterTh, envVars, callVars>>

\* The rest of the body after its await came back.
CoBodyRest(c, t) ==
  /\ cpc[c] = "body2" /\ t \in inside[c]
  /\ cpc' = [cpc EXCEPT ![c] = "exit"]
  /\ UNCHANGED <<phase, blk, pend, curh, inside, exited, hs, ready, lcur, taskRes,
                 histVars, envVars, callVars>>

\* __aexit__ lines 46-49, then `await` of what it returned (self).
CoExit(c, t) ==
  /\ cpc[c] = "exit" /\ t \in inside[c]
  /\ AExit(Sw(c))
  /\ phase' = [phase EXCEPT ![c] = "exit"]
  /\ cpc' = [cpc EXCEPT ![c] = "await"]
  /\ UNCHANGED <<blk, pend, curh, inside, hs, ready, lcur, taskRes, histVars,
                 envVars, callVars>>

\* After `await __aexit__(...)`: the body's exception is raised again, or the
\* code after the scope runs.
CoAfter(c, t) ==
  /\ cpc[c] = "after" /\ t \in inside[c]
  /\ afterTh' = [afterTh EXCEPT ![c][blk[c]] = t]
  /\ IF pend[c] # "none" /\ ~Suppressed(AwaitReturn)
     THEN /\ cpc' = [cpc EXCEPT ![c] = "raise"]
          /\ UNCHANGED <<pend, blk, phase>>
     ELSE /\ pend' = [pend EXCEPT ![c] = "none"]
          /\ IF blk[c] < Len(prog[c])
             THEN /\ blk' = [blk EXCEPT ![c] = @ + 1]
                  /\ phase' = [phase EXCEPT ![c] = "enter"]
                  /\ cpc' = [cpc EXCEPT ![c] = "await"]
             ELSE /\ cpc' = [cpc EXCEPT ![c] = "post"]
                  /\ UNCHANGED <<blk, phase>>
  /\ UNCHANGED <<curh, inside, exited, hs, ready, lcur, taskRes, preTh, bodyTh,
                 envVars, callVars>>

\* The coroutine returns.
CoReturn(c, t) ==
  /\ cpc[c] = "post" /\ t \in inside[c]
  /\ cpc' = [cpc EXCEPT ![c] = "done"]
  /\ Deliver(c, t, [k |-> "return"])
  /\ UNCHANGED <<phase, blk, pend, curh, exited, histVars, envVars, callVars>>

\* An exception leaves the coroutine.
CoRaise(c, t) ==
  /\ cpc[c] = "raise" /\ t \in inside[c]
  /\ cpc' = [cpc EXCEPT ![c] = "done"]
  /\ Deliver(c, t, [k |-> "raise", e |-> pend[c]])
  /\ UNCHANGED <<phase, blk, pend, curh, exited, histVars, envVars, callVars>>

\* ------------------------------------------------------------ event loop
LoopHeadWaitsForWorker(type) ==
  /\ lcur = "idle" /\ ready # <<>> /\ Head(ready).type = type
  /\ \A h \in Handoffs : hs[h].wpc # "insend"

\* The loop thread is free and takes the first scheduled callback.
LoopHead(type) == lcur = "idle" /\ ready # <<>> /\ Head(ready).type = type

\* The loop runs Task.__step: coro.send(None), or coro.throw(exc). A coroutine
\* that has ended raises at once, and that exception ends the task.
LoopStep ==
  /\ LoopHead("step")
  /\ ready' = Tail(ready)
  /\ LET c == Head(ready).c
         exc == Head(ready).exc IN
     IF cpc[c] = "done" /\ inside[c] = {}
     THEN /\ taskRes' = [taskRes EXCEPT ![c] = IF exc = "none" THEN "CannotReuse" ELSE exc]
          /\ UNCHANGED <<lcur, cpc, pend, inside>>
     ELSE /\ lcur' = c
          /\ Resume(c, LoopThread, exc)
          /\ taskRes' = taskRes
  /\ UNCHANGED <<phase, blk, curh, exited, hs, histVars, envVars, callVars>>

\* The loop runs the callback of line 43: event.set().
LoopSet ==
  /\ LoopHead("set")
  /\ ready' = Tail(ready)
  /\ hs' = [hs EXCEPT ![Head(ready).h].ev = TRUE]
  /\ UNCHANGED <<coVars, inside, exited, lcur, taskRes, histVars, envVars, callVars>>

\* The loop sets the asyncio future of run_in_executor from the finished
\* worker task and schedules the Task that waits on it.
LoopResolve ==
  /\ LoopHead("resolve")
  /\ LET h == Head(ready).h
         e == hs[h].wexc IN
     /\ hs' = [hs EXCEPT ![h].fst = IF e = "ok" THEN "ok" ELSE "err",
                         ![h].fexc = IF e = "ok" THEN "none" ELSE e]
     /\ ready' = IF hs[h].waiter = "none" THEN Tail(ready)
                 ELSE Append(Tail(ready),
                             Cb("step", hs[h].waiter, h, IF e = "ok" THEN "none" ELSE e))
  /\ UNCHANGED <<coVars, inside, exited, lcur, taskRes, histVars, envVars, callVars>>

\* The loop runs a step of another task, which has nothing to do with the
\* scoped block and schedules its next step until it ends.
LoopOther ==
  /\ LoopHead("other")
  /\ ready' = IF Head(ready).h > 1
               THEN Append(Tail(ready), Cb("other", "c1", Head(ready).h - 1, "none"))
               ELSE Tail(ready)
  /\ UNCHANGED <<coVars, inside, exited, hs, lcur, taskRes, histVars, envVars, callVars>>

\* --------------------------------------------- worker: exec_when_ready
\* A pool thread takes the submitted task and reaches event.wait() (line 25).
WStart(h, w) ==
  /\ hs[h].wpc = "queued" /\ WorkerIdle(w)
  /\ hs' = [hs EXCEPT ![h].wpc = "wait", ![h].wth = w]
  /\ UNCHANGED <<coVars, inside, exited, ready, lcur, taskRes, histVars, envVars, callVars>>

EventWaitReturnsAtOnce(h) == TRUE

\* line 25: event.wait() returns once the event is set.
EventWait(h) == hs[h].ev

\* The worker task gets past event.wait().
WWake(h, w) ==
  /\ hs[h].wpc = "wait" /\ hs[h].wth = w /\ EventWait(h)
  /\ hs' = [hs EXCEPT ![h].wpc = "send"]
  /\ UNCHANGED <<coVars, inside, exited, ready, lcur, taskRes, histVars, envVars, callVars>>

\* line 26: coro.send(None).
WSend(h, w) ==
  /\ hs[h].wpc = "send" /\ hs[h].wth = w
  /\ IF cpc[hs[h].target] = "done" /\ inside[hs[h].target] = {}
     THEN /\ hs' = [hs EXCEPT ![h].wpc = "done", ![h].wexc = "CannotReuse"]
          /\ ready' = Append(ready, Cb("resolve", "c1", h, "none"))
          /\ UNCHANGED <<cpc, pend, inside>>
     ELSE /\ hs' = [hs EXCEPT ![h].wpc = "insend"]
          /\ ready' = ready
          /\ Resume(hs[h].target, hs[h].wth, "none")
  /\ UNCHANGED <<phase, blk, curh, exited, lcur, taskRes, histVars, envVars, callVars>>

\* lines 28-29, then the executor reports the end of the task to the loop.
WCheck(h, w) ==
  /\ hs[h].wpc = "check" /\ hs[h].wth = w
  /\ hs' = [hs EXCEPT ![h].wpc = "done",
                      ![h].wexc = IF MustRaise(hs[h].sw) THEN "AwaitInWorker" ELSE "ok"]
  /\ ready' = Append(ready, Cb("resolve", "c1", h, "none"))
  /\ UNCHANGED <<coVars, inside, exited, lcur, taskRes, histVars, envVars, callVars>>

\* ----------------------------------------- worker: a submitted callback
\* A pool thread takes the callback and starts calling it.
JobStart(j, w) ==
  /\ jobs[j].st = "queued" /\ WorkerIdle(w)
  /\ jobs' = [jobs EXCEPT ![j].st = "running", ![j].th = w]
  /\ UNCHANGED <<coVars, inside, exited, hs, ready, lcur, taskRes, histVars,
                 envVars, calls>>

\* The callback ends; the executor reports its outcome to the loop
\* (call_soon_threadsafe).
JobEnd(j, w) ==
  /\ jobs[j].st = "running" /\ jobs[j].th = w
  /\ jobs' = [jobs EXCEPT ![j].st = "done", ![j].out = RunCallback(jobs[j].cb)]
  /\ ready' = Append(ready, Cb("cresolve", "c1", j, "none"))
  /\ UNCHANGED <<coVars, inside, exited, hs, lcur, taskRes, histVars, envVars, calls>>

\* The loop sets the asyncio future of the call from the finished callback.
LoopCallResolve ==
  /\ LoopHead("cresolve")
  /\ ready' = Tail(ready)
  /\ LET j == Head(ready).h IN
     calls' = [calls EXCEPT ![jobs[j].call].fst = IF jobs[j].out.k = "err"
                                                  THEN "err" ELSE "ok",
                            ![jobs[j].call].fout = jobs[j].out]
  /\ UNCHANGED <<coVars, inside, exited, hs, lcur, taskRes, histVars, envVars, jobs>>

\* ------------------------------------------------- callers of a wrapper
\* A callback of the loop calls a wrapped function.
LoopCall(f, pos, kw) ==
  /\ lcur = "idle"
  /\ WrapperCall(LoopThread, f, pos, kw)
  /\ lcur' = "call"
  /\ UNCHANGED <<coVars, inside, exited, hs, ready, taskRes, histVars, envVars>>

\* The wrapper returns into that callback, which ends.
LoopCallReturn ==
  /\ lcur = "call"
  /\ \E k \in DOMAIN calls : calls[k].th = LoopThread /\ calls[k].ret = "unreturned"
  /\ WrapperReturn(OpenCall(LoopThread))
  /\ lcur' = "idle"
  /\ UNCHANGED <<coVars, inside, exited, hs, ready, taskRes, histVars, envVars, jobs>>

\* Code that runs on a thread without an event loop (a pool thread that runs
\* blocking code, or a thread of the program's own) calls a wrapped function.
ThreadCall(t, f, pos, kw) ==
  /\ t \in Workers => WorkerIdle(t)
  /\ WrapperCall(t, f, pos, kw)
  /\ UNCHANGED <<coVars, inside, exited, hs, ready, lcur, taskRes, histVars, envVars>>

\* A callback of the loop calls call_in_executor.
LoopHelperCall(f, pos, kw) ==
  /\ lcur = "idle"
  /\ CallInExecutor(LoopThread, f, pos, kw)
  /\ lcur' = "call"
  /\ UNCHANGED <<coVars, inside, exited, hs, ready, taskRes, histVars, envVars>>

\* Code on a thread without an event loop calls call_in_executor.
ThreadHelperCall(t, f, pos, kw) ==
  /\ t \in Workers => WorkerIdle(t)
  /\ CallInExecutor(t, f, pos, kw)
  /\ UNCHANGED <<coVars, inside, exited, hs, ready, lcur, taskRes, histVars, envVars>>

\* The program shuts the executor down; the callbacks it holds still run.
ExecutorShutdown ==
  /\ ~shut
  /\ shut' = TRUE
  /\ UNCHANGED <<coVars, inside, exited, hs, ready, lcur, taskRes, histVars,
                 callVars, prog, live, wraps, asserts>>

\* _ThreadSwitcher.__call__(func), the decorator: lines 51-65.
Wrap(f) ==
  /\ wraps[f] = "none"
  /\ wraps' = [wraps EXCEPT ![f] = WrapResult(f)]
  /\ UNCHANGED <<coVars, inside, exited, hs, ready, lcur, taskRes, histVars,
                 callVars, prog, live, asserts, shut>>

\* ------------------------------------------------------------ next state
CoStep(c, t) ==
  \/ CoPre(c, t)
  \/ CoAwaitExited(c, t)
  \/ CoAwaitSubmit(c, t)
  \/ CoMark(c, t)
  \/ CoCallSoon(c, t)
  \/ CoYieldFuture(c, t)
  \/ CoBodyRun(c, t)
  \/ CoBodyAwait(c, t)
  \/ CoBodyRest(c, t)
  \/ CoExit(c, t)
  \/ CoAfter(c, t)
  \/ CoReturn(c, t)
  \/ CoRaise(c, t)

\* Everything the event loop thread does for a scoped block.
LoopNext ==
  \/ LoopStep
  \/ LoopSet
  \/ LoopResolve
  \/ \E c \in Coros : CoStep(c, LoopThread)

\* Everything the pool thread w does for a scoped block.
WorkerNext(w) ==
  \/ \E h \in Handoffs : WStart(h, w)
  \/ \E h \in Handoffs : WWake(h, w)
  \/ \E h \in Handoffs : WSend(h, w)
  \/ \E h \in Handoffs : WCheck(h, w)
  \/ \E c \in Coros : CoStep(c, w)

Next ==
  \/ LoopNext
  \/ \E w \in Workers : WorkerNext(w)

\* The scoped block: one task runs a coroutine with 1..MaxBlocks blocks.
Spec == Init /\ [][Next]_vars

\* The loop runs its callbacks and every pool thread runs.
FairSpec ==
  /\ Spec
  /\ WF_vars(LoopNext)
  /\ \A w \in Workers : WF_vars(WorkerNext(w))

\* The task of the coroutine and another task of MaxTicks steps share the loop.
BusyInit ==
  /\ live = {"c1"}
  /\ InitCommon
  /\ InitEnv
  /\ ready = <<Cb("step", "c1", 0, "none"), Cb("other", "c1", MaxTicks, "none")>>

BusyNext ==
  \/ Next
  \/ LoopOther

BusySpec == BusyInit /\ [][BusyNext]_vars

\* Two tasks run coroutines made from the same coroutine function, each with
\* its own _ThreadSwitcher objects: both first steps are scheduled.
MultiInit ==
  /\ live = Coros
  /\ InitCommon
  /\ InitEnv
  /\ prog["c2"] = prog["c1"]
  /\ ready = <<Cb("step", "c1", 0, "none"), Cb("step", "c2", 0, "none")>>

MultiSpec == MultiInit /\ [][Next]_vars

\* ------------------------------------------------ the wrapper on its own
CallArgs == Funcs \X PosArgs \X KwArgs

\* What the loop thread does once a callback has called the wrapper.
LoopCallRun ==
  \/ LoopCallReturn
  \/ LoopCallResolve

LoopCallNext ==
  \/ \E a \in CallArgs : LoopCall(a[1], a[2], a[3])
  \/ LoopCallRun

\* What the pool thread w does with the submitted callbacks.
WorkerJobRun(w) ==
  \/ \E j \in DOMAIN jobs : JobStart(j, w)
  \/ \E j \in DOMAIN jobs : JobEnd(j, w)

WorkerCallNext(w) ==
  \/ WorkerJobRun(w)
  \/ \E a \in CallArgs : ThreadCall(w, a[1], a[2], a[3])

ExtNext == \E a \in CallArgs : ThreadCall(ExtThread, a[1], a[2], a[3])

CallNext ==
  \/ LoopCallNext
  \/ \E w \in Workers : WorkerCallNext(w)
  \/ ExtNext

\* No coroutine runs a scoped block; up to MaxCalls calls of wrapped functions
\* are made from the loop, from pool threads and from another thread.
CallInit ==
  /\ live = {}
  /\ InitCommon
  /\ InitEnv
  /\ prog = [c \in Coros |-> <<[sw |-> 1, kind |-> "plain"]>>]
  /\ ready = <<>>

CallSpec == CallInit /\ [][CallNext]_vars

\* The loop runs its callbacks and every pool thread runs the callbacks it
\* can take; nothing obliges a thread to call a wrapped function.
FairCallSpec ==
  /\ CallSpec
  /\ WF_vars(LoopCallRun)
  /\ \A w \in Workers : WF_vars(WorkerJobRun(w))


\* ------------------------------------------ call_in_executor on its own
HelperNext ==
  \/ \E a \in CallArgs : LoopHelperCall(a[1], a[2], a[3])
  \/ LoopCallRun
  \/ \E w \in Workers : WorkerJobRun(w)
  \/ \E w \in Workers : \E a \in CallArgs : ThreadHelperCall(w, a[1], a[2], a[3])
  \/ \E a \in CallArgs : ThreadHelperCall(ExtThread, a[1], a[2], a[3])

\* Up to MaxCalls calls of call_in_executor from the loop, from pool threads
\* and from another thread.
HelperSpec == CallInit /\ [][HelperNext]_vars

FairHelperSpec ==
  /\ HelperSpec
  /\ WF_vars(LoopCallRun)
  /\ \A w \in Workers : WF_vars(WorkerJobRun(w))

\* ------------------------------------- an executor that is shut down
\* The calls made here: whether submit fails does not depend on the arguments.
ShutArgs == {a \in CallArgs : a[3] # 0}

ShutNext ==
  \/ \E a \in ShutArgs : LoopCall(a[1], a[2], a[3])
  \/ \E a \in ShutArgs : LoopHelperCall(a[1], a[2], a[3])
  \/ LoopCallRun
  \/ \E w \in Workers : WorkerJobRun(w)
  \/ ExecutorShutdown

\* Calls on the loop thread, through a wrapper and through call_in_executor,
\* before and after the executor is shut down.
ShutSpec == CallInit /\ [][ShutNext]_vars

\* ------------------------------------------- wrapping and then calling
WrapArgs == AllFuncs \X PosArgs \X KwArgs

WrapNext ==
  \/ \E f \in AllFuncs : Wrap(f)
  \/ \E a \in WrapArgs : LoopCall(a[1], a[2], a[3])
  \/ LoopCallRun
  \/ \E w \in Workers : WorkerJobRun(w)
  \/ \E w \in Workers : \E a \in WrapArgs : ThreadCall(w, a[1], a[2], a[3])

\* Nothing is wrapped yet; the interpreter runs assert statements or was
\* started with -O.
WrapInit ==
  /\ live = {}
  /\ InitCommon
  /\ prog = [c \in Coros |-> <<[sw |-> 1, kind |-> "plain"]>>]
  /\ ready = <<>>
  /\ wraps = [f \in AllFuncs |-> "none"]
  /\ asserts \in BOOLEAN
  /\ shut = FALSE

WrapSpec == WrapInit /\ [][WrapNext]_vars

\* =================================================================== claims
BlockSw(c, k) == <<c, prog[c][k].sw>>
HandoffsOf(s) == {h \in Handoffs : hs[h].sw = s}
InAwaitElse(c) == cpc[c] \in {"mark", "callsoon", "yieldfut"}

\* C1: in every reachable state the continuation is executed by at most one
\* thread: the event loop thread and a worker thread are never both inside it.
C1_AtMostOneThreadInside == \A c \in Coros : Cardinality(inside[c]) <= 1

\* A worker thread is inside the continuation that the loop parked.
C1_Witness ==
  \E h \in Handoffs :
    /\ hs[h].wpc = "insend"
    /\ inside[hs[h].target] = {hs[h].wth}
    /\ cpc[hs[h].target] = "body"

\* C2: the event of a handoff is set, and its worker task is past event.wait(),
\* only after the loop thread has left the step that made the handoff and the
\* Task has parked the continuation on the handoff's future.
C2_ResumeOnlyAfterParked ==
  \A h \in Handoffs :
    (hs[h].ev \/ hs[h].wpc \in {"send", "insend", "check", "done"})
      => /\ hs[h].parked
         /\ ~(InAwaitElse(hs[h].owner) /\ curh[hs[h].owner] = h)
         /\ LoopThread \notin inside[hs[h].owner] \/ hs[h].wpc \in {"check", "done"}

\* The worker task is about to call coro.send on the parked continuation.
C2_Witness ==
  \E h \in Handoffs :
    /\ hs[h].wpc = "send" /\ hs[h].ev /\ hs[h].parked
    /\ cpc[hs[h].owner] = "at44" /\ inside[hs[h].owner] = {}

\* C3: the body of every scoped block, also of a later block entered through
\* the same _ThreadSwitcher object, runs on a worker thread that is not the
\* thread of the code before the scope, and the continuation goes on after the
\* scope on the event loop thread.
C3_BodyOnWorkerAfterOnLoop ==
  \A c \in live : \A k \in 1..MaxBlocks :
    /\ bodyTh[c][k] # "none" => bodyTh[c][k] \in Workers /\ bodyTh[c][k] # preTh[c]
    /\ afterTh[c][k] # "none" => afterTh[c][k] = LoopThread

\* C4: once the body of a block entered on the loop thread has ended on a
\* worker thread without suspending, the worker task ends without an error
\* and the continuation is resumed after the scope on the loop thread.
C4_HandoffCompletes ==
  \A c \in Coros : \A k \in 1..MaxBlocks :
    (/\ cpc[c] = "exit" /\ blk[c] = k
     /\ prog[c][k].kind # "await"
     /\ bodyTh[c][k] \in Workers /\ inside[c] \subseteq Workers
     /\ preTh[c] = LoopThread)
      ~> (/\ afterTh[c][k] = LoopThread
          /\ \E h \in Handoffs :
               /\ hs[h].owner = c /\ hs[h].blk = k
               /\ hs[h].wpc = "done" /\ hs[h].wexc = "ok")

\* The body has ended on a worker thread and the block is about to exit.
C4_Witness ==
  \E c \in Coros :
    /\ cpc[c] = "exit" /\ bodyTh[c][blk[c]] \in Workers
    /\ preTh[c] = LoopThread /\ prog[c][blk[c]].kind = "plain"
    /\ \E h \in Handoffs : hs[h].owner = c /\ hs[h].blk = blk[c] /\ hs[h].wpc = "insend"

\* The body of the block of handoff h raised on a worker thread.
BodyRaisedOnWorker(h) ==
  /\ prog[hs[h].owner][hs[h].blk].kind = "raise"
  /\ bodyTh[hs[h].owner][hs[h].blk] \in Workers

\* C5 as claimed: an exception of the body on the worker thread fails the
\* future of the worker task with that exception, and it is the outcome of the
\* caller.
C5_BodyErrorFailsFuture ==
  \A h \in Handoffs :
    BodyRaisedOnWorker(h) =>
      /\ hs[h].fst # "pending" => hs[h].fst = "err" /\ hs[h].fexc = "BodyError"
      /\ taskRes[hs[h].owner] # "none" => taskRes[hs[h].owner] = "BodyError"

\* C5 as amended: the worker task and its future end without an error; the
\* exception stays in the continuation, __aexit__ does not suppress it, and it
\* is raised again on the loop thread after the scope, so that the outcome of
\* the caller is exactly that exception.
C5_BodyErrorSurfacesInCaller ==
  \A h \in Handoffs :
    BodyRaisedOnWorker(h) =>
      /\ hs[h].wexc \in {"none", "ok"}
      /\ hs[h].fst \in {"pending", "ok"}
      /\ taskRes[hs[h].owner] \in {"none", "BodyError"}
      /\ cpc[hs[h].owner] = "done" =>
           /\ taskRes[hs[h].owner] = "BodyError"
           /\ afterTh[hs[h].owner][hs[h].blk] = LoopThread

\* The caller ended with the exception of the body while the future of the
\* worker task holds a result.
C5_Witness ==
  \E h \in Handoffs :
    /\ BodyRaisedOnWorker(h)
    /\ hs[h].fst = "ok"
    /\ taskRes[hs[h].owner] = "BodyError"

\* C6: a worker task whose coro.send came back from a yield while self.exited
\* was false ends with the RuntimeError of line 29; it ends without an error
\* only when self.exited is true.
C6_AwaitInWorkerRejected ==
  \A h \in Handoffs :
    /\ (hs[h].wpc = "done" /\ hs[h].wexc = "ok") => exited[hs[h].sw]
    /\ (/\ hs[h].wpc = "done"
        /\ prog[hs[h].target][hs[h].blk].kind = "await"
        /\ bodyTh[hs[h].target][hs[h].blk] \in Workers)
         => hs[h].wexc = "AwaitInWorker"

\* The body awaited on a worker thread and the worker task ended with the
\* RuntimeError.
C6_Witness ==
  \E h \in Handoffs :
    /\ hs[h].wpc = "done" /\ hs[h].wexc = "AwaitInWorker"
    /\ cpc[hs[h].target] = "bodywait"
    /\ ~exited[hs[h].sw]

\* C7: a _ThreadSwitcher object makes at most one handoff, and __await__ is in
\* its else branch (event, worker task) only while self.exited is false.
C7_OneHandoffPerSwitcher ==
  /\ \A s \in Switchers : Cardinality(HandoffsOf(s)) <= 1
  /\ \A c \in Coros : InAwaitElse(c) => ~exited[Sw(c)]

\* The third __await__ of one object: the second block was entered through the
\* object of the first and its __await__ yielded without a new handoff.
C7_Witness ==
  \E c \in Coros :
    /\ blk[c] = 2 /\ Sw(c) = BlockSw(c, 1)
    /\ phase[c] = "enter" /\ cpc[c] = "at33"
    /\ exited[Sw(c)]
    /\ Cardinality(HandoffsOf(Sw(c))) = 1


\* ------------------------------------------------- claims on the wrapper
SameArgs(k1, k2) ==
  /\ calls[k1].f = calls[k2].f
  /\ calls[k1].pos = calls[k2].pos
  /\ calls[k1].kw = calls[k2].kw

\* C8: a call of a wrapped function on the event loop thread submits exactly
\* one callback, the callable bound with the arguments of the call, never runs
\* the callable on the loop thread, and returns the future while it is pending.
C8_LoopCallSubmitsAndReturns ==
  \A k \in DOMAIN calls :
    calls[k].th = LoopThread =>
      /\ Cardinality(JobOf(k)) = 1
      /\ \A j \in JobOf(k) :
           /\ jobs[j].cb.f = calls[k].f
           /\ jobs[j].cb.pos = calls[k].pos
           /\ jobs[j].cb.kw = calls[k].kw
           /\ jobs[j].th # LoopThread
      /\ calls[k].ran = "none"
      /\ calls[k].ret \in {"unreturned", "future"}
      /\ calls[k].ret = "future" => calls[k].retFst = "pending"

\* The wrapper has returned a pending future on the loop thread while the
\* callback had not ended.
C8_Witness ==
  \E k \in DOMAIN calls :
    /\ calls[k].th = LoopThread
    /\ calls[k].ret = "future" /\ calls[k].retFst = "pending"
    /\ calls[k].retJob \in {"queued", "running"}
    /\ lcur = "idle"

\* C9: a call of a wrapped function on a thread without an event loop runs
\* the callable on that thread and returns its value or raises its error;
\* nothing is submitted and there is no future.
C9_NoLoopCallRunsInPlace ==
  \A k \in DOMAIN calls :
    calls[k].th # LoopThread =>
      /\ JobOf(k) = {}
      /\ calls[k].fst = "nofuture"
      /\ calls[k].ran = calls[k].th
      /\ calls[k].rout = Func(calls[k].f, calls[k].pos, calls[k].kw)
      /\ calls[k].ret \in {"value", "raised"}
      /\ calls[k].ret = "value" => calls[k].rout.k = "ok"
      /\ calls[k].ret = "raised" => calls[k].rout.k = "err"

\* A pool thread got a value and the other thread got the error, both from
\* the call itself.
C9_Witness ==
  \E k1, k2 \in DOMAIN calls :
    /\ calls[k1].th \in Workers /\ calls[k1].ret = "value"
    /\ calls[k2].th = ExtThread /\ calls[k2].ret = "raised"
    /\ jobs = <<>>

\* C10: whenever the future returned on the loop thread is resolved, its
\* outcome is that of a call made in place with the same function and
\* arguments; and from some point on every such future is resolved.
C10_RoutesAgree ==
  /\ [](\A k1, k2 \in DOMAIN calls :
          (/\ calls[k1].route = "direct" /\ calls[k2].route = "submit"
           /\ SameArgs(k1, k2)
           /\ calls[k2].fst # "pending")
            => calls[k2].fout = calls[k1].rout)
  /\ <>[](\A k \in DOMAIN calls :
            calls[k].route = "submit" => calls[k].fst \in {"ok", "err"})

\* The same call was made in place and through the executor, and both ended
\* with the same error.
C10_Witness ==
  \E k1, k2 \in DOMAIN calls :
    /\ calls[k1].route = "direct" /\ calls[k2].route = "submit"
    /\ SameArgs(k1, k2)
    /\ calls[k1].ret = "raised"
    /\ calls[k2].fst = "err" /\ calls[k2].fout = calls[k1].rout


\* --------------------------------------------------- claims on wrapping
\* C11: a coroutine function never gets a wrapper: wrapping it fails, so no
\* call of it goes through a wrapper and no callback of it is submitted.
C11_CoroutineFunctionNeverWrapped ==
  /\ \A f \in CoroFuncs : wraps[f] # "wrapper"
  /\ \A k \in DOMAIN calls : calls[k].f \notin CoroFuncs
  /\ \A j \in DOMAIN jobs : jobs[j].cb.f \notin CoroFuncs

\* -------------------------------------------- claims on call_in_executor
HelperCalls == {k \in DOMAIN calls : calls[k].via = "helper"}

\* The one callback submitted for call k is the callable bound with the
\* arguments of the call.
SubmittedOnce(k) ==
  /\ Cardinality(JobOf(k)) = 1
  /\ \A j \in JobOf(k) :
       /\ jobs[j].cb.f = calls[k].f
       /\ jobs[j].cb.pos = calls[k].pos
       /\ jobs[j].cb.kw = calls[k].kw
       /\ jobs[j].th # calls[k].th

\* C12 as claimed: every call of call_in_executor, on whatever thread,
\* submits the bound callable exactly once, gets a future and never runs the
\* callable on the calling thread.
C12_HelperAlwaysSubmits ==
  \A k \in HelperCalls :
    /\ SubmittedOnce(k)
    /\ calls[k].fst # "nofuture"
    /\ calls[k].ran = "none"
    /\ calls[k].ret \in {"unreturned", "future"}

\* C12 as amended: call_in_executor never runs the callable in place; on the
\* event loop thread it submits the bound callable exactly once and returns
\* the future; on a thread without an event loop get_event_loop raises, the
\* call raises that error, nothing is submitted and there is no future.
C12_HelperSubmitsOnLoopThread ==
  \A k \in HelperCalls :
    /\ calls[k].ran = "none"
    /\ calls[k].th = LoopThread =>
         /\ SubmittedOnce(k)
         /\ calls[k].exc = "none" /\ calls[k].fst # "nofuture"
         /\ calls[k].ret \in {"unreturned", "future"}
    /\ calls[k].th # LoopThread =>
         /\ JobOf(k) = {}
         /\ calls[k].exc = "NoLoop" /\ calls[k].fst = "nofuture"
         /\ calls[k].ret = "raised"

\* call_in_executor returned a future on the loop thread and raised on a
\* pool thread.
C12_Witness ==
  \E k1, k2 \in HelperCalls :
    /\ calls[k1].th = LoopThread /\ calls[k1].ret = "future"
    /\ calls[k2].th \in Workers /\ calls[k2].ret = "raised"
    /\ calls[k2].exc = "NoLoop"

\* The callable of call k raises when called with the arguments of the call.
CallableRaises(k) == Func(calls[k].f, calls[k].pos, calls[k].kw).k = "err"

\* C13: the future of a call of call_in_executor whose callable raises is
\* pending and then failed with exactly that error, never fulfilled, and
\* from some point on it is failed.
C13_HelperErrorFailsFuture ==
  /\ [](\A k \in HelperCalls :
          (calls[k].th = LoopThread /\ CallableRaises(k)) =>
            /\ calls[k].fst \in {"pending", "err"}
            /\ calls[k].fst = "err" =>
                 calls[k].fout = Outcome("err", 0, "ZeroDivisionError"))
  /\ <>[](\A k \in HelperCalls :
            (calls[k].th = LoopThread /\ CallableRaises(k)) => calls[k].fst = "err")

\* The callable raised on a pool thread and the returned future is failed
\* with its error.
C13_Witness ==
  \E k \in HelperCalls :
    /\ calls[k].th = LoopThread /\ calls[k].ret = "future"
    /\ calls[k].retFst = "pending"
    /\ calls[k].fst = "err" /\ calls[k].fout.e = "ZeroDivisionError"
    /\ \E j \in JobOf(k) : jobs[j].th \in Workers

\* C14 as claimed: a call on the loop thread made after the executor was shut
\* down still gets a future, that future is failed, and the call does not
\* raise.
C14_SubmitFailureFailsFuture ==
  \A k \in DOMAIN calls :
    (calls[k].th = LoopThread /\ calls[k].shutAt) =>
      /\ calls[k].ret # "raised"
      /\ calls[k].ret = "future" => calls[k].fst = "err"

\* C14 as amended: a call on the loop thread made after the executor was shut
\* down makes no future and submits nothing; the error of submit is raised
\* out of the call itself. A call made before submits exactly once.
C14_SubmitFailureRaisesAtCall ==
  \A k \in DOMAIN calls :
    calls[k].th = LoopThread =>
      /\ calls[k].ran = "none"
      /\ calls[k].shutAt =>
           /\ JobOf(k) = {} /\ calls[k].fst = "nofuture"
           /\ calls[k].exc = "SubmitError"
           /\ calls[k].ret \in {"unreturned", "raised"}
      /\ ~calls[k].shutAt =>
           /\ SubmittedOnce(k) /\ calls[k].exc = "none"
           /\ calls[k].ret \in {"unreturned", "future"}

\* Both a wrapper call and a call of call_in_executor raised the error of
\* submit.
C14_Witness ==
  \E k1, k2 \in DOMAIN calls :
    /\ calls[k1].via = "wrapper" /\ calls[k2].via = "helper"
    /\ calls[k1].ret = "raised" /\ calls[k1].exc = "SubmitError"
    /\ calls[k2].ret = "raised" /\ calls[k2].exc = "SubmitError"

\* ------------------------------------------ claims on several coroutines
\* C15: the coroutine a worker task resumes is the coroutine that ran the
\* __await__ which made the worker task, also when two coroutines of the same
\* code are alive.
C15_ResumesOwnContinuation ==
  \A h \in Handoffs : hs[h].target = hs[h].owner

\* ----------------------------------------- claims on the pass after exit
\* C16 as claimed: with self.exited true __await__ does not yield: the
\* coroutine is never suspended at line 33.
C16_NoYieldWhenExited == \A c \in Coros : cpc[c] # "at33"

\* C16 as amended: with self.exited true __await__ makes no new handoff but
\* yields once; the coroutine suspended at line 33 is executed by no thread,
\* after a body on a worker thread the worker task has control back, and the
\* code after the scope is run by the loop thread.
C16_ExitedPassYieldsOnce ==
  \A c \in Coros :
    /\ cpc[c] = "at33" =>
         /\ exited[Sw(c)]
         /\ inside[c] = {}
         /\ Cardinality(HandoffsOf(Sw(c))) <= 1
         /\ (phase[c] = "exit" /\ bodyTh[c][blk[c]] \in Workers) =>
              \A h \in HandoffsOf(Sw(c)) : hs[h].wpc \in {"check", "done"}
    /\ \A k \in 1..MaxBlocks :
         (bodyTh[c][k] \in Workers /\ afterTh[c][k] # "none")
           => afterTh[c][k] = LoopThread

\* The body ended on a worker thread, __aexit__ ran, and the coroutine has
\* yielded at line 33 back into the worker task.
C16_Witness ==
  \E c \in Coros :
    /\ cpc[c] = "at33" /\ phase[c] = "exit"
    /\ bodyTh[c][blk[c]] \in Workers /\ inside[c] = {}
    /\ \E h \in HandoffsOf(Sw(c)) : hs[h].wpc = "check"

\* ------------------------------------------------- claims on the event
\* The scheduled callbacks that set the event of handoff h.
SetCallbacks(h) == {i \in DOMAIN ready : ready[i].type = "set" /\ ready[i].h = h}

\* How often the event of handoff h has been or is going to be set.
Signals(h) == Cardinality(SetCallbacks(h)) + (IF hs[h].ev THEN 1 ELSE 0)

\* The __await__ that made handoff h is past line 43.
Released(h) ==
  ~(curh[hs[h].owner] = h /\ cpc[hs[h].owner] \in {"mark", "callsoon"})

\* C17: every handoff has an event of its own, which is set exactly once: one
\* callback that sets it is scheduled by line 43, none before and none after,
\* the callback names a handoff that exists and whose event is not yet set,
\* the worker task gets past event.wait() only when the event of its own
\* handoff is set, a set event stays set, and while the loop runs every event
\* ends up set.
C17_EventSetExactlyOnce ==
  /\ [](\A h \in Handoffs :
          /\ Signals(h) = (IF Released(h) THEN 1 ELSE 0)
          /\ hs[h].wpc \notin {"queued", "wait"} => hs[h].ev)
  /\ [](\A i \in DOMAIN ready :
          ready[i].type = "set" => ready[i].h \in Handoffs /\ ~hs[ready[i].h].ev)
  /\ [][\A h \in Handoffs : hs[h].ev => hs'[h].ev]_vars
  /\ \A n \in 1..MaxHandoffs : (n \in Handoffs) ~> (n \in Handoffs /\ hs[n].ev)

\* The event of a handoff has been set by the callback of the loop while its
\* worker task waits for it.
C17_Witness ==
  \E h \in Handoffs :
    /\ hs[h].ev /\ hs[h].wpc = "wait"
    /\ SetCallbacks(h) = {} /\ hs[h].parked

\* C18 as claimed: the worker task of a handoff starts event.wait() only after
\* the Task has parked the coroutine on the handoff's future.
C18_NoWaitBeforeParked ==
  \A h \in Handoffs : hs[h].wpc # "queued" => hs[h].parked

\* C18 as amended: the worker task may start event.wait() as soon as it is
\* submitted, also while the loop thread is still inside the step that made
\* the handoff; until the coroutine is parked the event is not set and the
\* worker task is not past event.wait().
C18_WaitReturnsOnlyAfterParked ==
  \A h \in Handoffs :
    ~hs[h].parked => ~hs[h].ev /\ hs[h].wpc \in {"queued", "wait"}

\* The worker task is in event.wait() while the loop thread is at line 42 of
\* the __await__ that made the handoff.
C18_Witness ==
  \E h \in Handoffs :
    /\ hs[h].wpc = "wait" /\ ~hs[h].parked /\ ~hs[h].ev
    /\ curh[hs[h].owner] = h /\ cpc[hs[h].owner] = "mark"
    /\ LoopThread \in inside[hs[h].owner]

\* ------------------------------------------- claims on the loop thread
\* The body of the block of coroutine c is being run by a worker thread.
BodyOnWorker(c) ==
  /\ cpc[c] \in {"body", "body2", "exit"}
  /\ inside[c] \cap Workers # {}

\* The loop thread takes a scheduled callback.
LoopRun ==
  \/ LoopStep
  \/ LoopSet
  \/ LoopResolve
  \/ LoopOther

\* C19: while the body of a block runs on a worker thread, the loop thread is
\* inside no step of the coroutine, and whenever a callback is scheduled,
\* that of another task included, the loop thread can run it: it waits
\* neither for the event nor for the worker task.
C19_LoopFreeDuringBody ==
  \A c \in Coros :
    BodyOnWorker(c) =>
      /\ lcur = "idle"
      /\ ready # <<>> => ENABLED LoopRun

\* The body runs on a worker thread while a step of the other task is the
\* next callback of the loop.
C19_Witness ==
  \E c \in Coros :
    /\ BodyOnWorker(c) /\ lcur = "idle"
    /\ ready # <<>> /\ Head(ready).type = "other"
    /\ ENABLED LoopOther

\* ------------------------------- claims on the error of an await in a body
\* The worker task of handoff h ended with the RuntimeError of line 29.
WorkerTaskFailed(h) == hs[h].wpc = "done" /\ hs[h].wexc = "AwaitInWorker"

\* C20: once the worker task has ended with the RuntimeError of line 29, no
\* worker thread is inside the coroutine again; the error is thrown into the
\* coroutine on the loop thread where it is suspended in the body, __aexit__
\* runs there and sets self.exited, and the task of the coroutine ends with
\* that error; all of this happens when the loop runs.
C20_WorkerErrorResumesOnLoop ==
  /\ [](\A h \in Handoffs :
          WorkerTaskFailed(h) =>
            /\ inside[hs[h].target] \subseteq {LoopThread}
            /\ taskRes[hs[h].owner] \in {"none", "AwaitInWorker"}
            /\ cpc[hs[h].owner] # "bodywait" =>
                 /\ pend[hs[h].owner] = "AwaitInWorker"
                 /\ blk[hs[h].owner] = hs[h].blk
            /\ afterTh[hs[h].owner][hs[h].blk] \in {"none", LoopThread}
            /\ cpc[hs[h].owner] \in {"after", "raise", "done"} => exited[hs[h].sw])
  /\ \A n \in 1..MaxHandoffs :
       (n \in Handoffs /\ WorkerTaskFailed(n))
         ~> (/\ n \in Handoffs
             /\ exited[hs[n].sw]
             /\ cpc[hs[n].owner] = "done"
             /\ taskRes[hs[n].owner] = "AwaitInWorker")

\* The task ended with the RuntimeError after __aexit__ ran on the loop thread.
C20_Witness ==
  \E h \in Handoffs :
    /\ WorkerTaskFailed(h)
    /\ exited[hs[h].sw]
    /\ afterTh[hs[h].owner][hs[h].blk] = LoopThread
    /\ taskRes[hs[h].owner] = "AwaitInWorker"

====
